---- MODULE Spec2Model ----
(***************************************************************************)
(* Model of the store of src/context/StoreContext.tsx (the Supabase        *)
(* version, lines 301-652): the React state of StoreProvider (the local    *)
(* cache), the remote collections it talks to, the calls suspended on a    *)
(* round trip, the realtime channel of the messages collection and the     *)
(* budget recompute effect.                                                *)
(*                                                                         *)
(* Every entry point is an async function with one await.  It is modelled  *)
(* by three steps: Call (the synchronous part up to the await: closures    *)
(* are read, the request is built and issued), Remote (the remote store    *)
(* executes the request, or fails it) and Resolve (the continuation after  *)
(* the await, which is where every setState of the source is).             *)
(*                                                                         *)
(* A setState call queues its update; React applies the queued updates in  *)
(* the order of the calls when it renders next, and a render may follow    *)
(* one continuation or several.  The updaters of the source are functions  *)
(* of the previous state only, so the state variables hold each hook with  *)
(* the queued updates applied (what the next render will show), and        *)
(* rendered holds what the last render showed: the values the closures of  *)
(* the entry points and of the effect read, and the lists the user picks   *)
(* from.                                                                   *)
(*                                                                         *)
(* Identifiers, receipt numbers and unique ids are strings in the source   *)
(* and sequences of one-character strings here, so that startsWith and     *)
(* template strings are computed.  An optional value (null / undefined /   *)
(* a value) is a sequence of length 0 or 1.  Dates and timestamps, which   *)
(* the store sorts on, are ranks.  Fields that the code only copies        *)
(* (description, performed_by, signature, names ...) are left out.         *)
(***************************************************************************)
EXTENDS Integers, Sequences, FiniteSets, TLC

VARIABLES
    user,            \* useState<User | null>: <<>> or <<session>>
    transactions,    \* useState<Transaction[]>
    members,         \* useState<Member[]>
    budgets,         \* useState<Budget[]>
    messages,        \* useState<CommunityMessage[]>
    settings,        \* useState<AppSettings>
    isLoading,       \* useState(true)
    rendered,        \* the state the last render showed (what the closures read)
    depsSet,         \* setTransactions was called since the last render
    effectPending,   \* the effect with deps [transactions] is scheduled
    db,              \* the remote collections: table name -> rows
    nextId,          \* the remote store's identifier sequence
    ops,             \* the calls suspended on their round trip
    fetch,           \* fetchData: its position, the selects answered, their answers
    channel,         \* realtime channel: joined, undelivered events, and whether a
                     \* change of messages happened before it joined (no event)
    nCalls,          \* number of entry-point calls made so far
    clock,           \* the last reading of the client's clock (Date.now())
    returned         \* what the last completed call returned, <<>> if nothing yet

cache == <<user, transactions, members, budgets, messages, settings>>
snapshot == [members |-> members, transactions |-> transactions, budgets |-> budgets,
             messages |-> messages, settings |-> settings, session |-> user]
vars == <<user, transactions, members, budgets, messages, settings, isLoading, rendered,
          depsSet, effectPending, db, nextId, ops, fetch, channel, nCalls, clock, returned>>

-----------------------------------------------------------------------------
(* Bounds of the exploration *)
MaxCalls == 2
MaxInFlight == 2
MaxPeerRows == 2

-----------------------------------------------------------------------------
(* Generic helpers *)
Null == <<>>
Some(x) == <<x>>

Range(s) == {s[i] : i \in 1..Len(s)}

RECURSIVE SumSeq(_)
SumSeq(s) == IF s = <<>> THEN 0 ELSE Head(s) + SumSeq(Tail(s))

\* Array.prototype.map (Array.prototype.filter is SelectSeq)
Map(s, F(_)) == [i \in 1..Len(s) |-> F(s[i])]

Digit == <<"0", "1", "2", "3", "4", "5", "6", "7", "8", "9">>
\* Number.prototype.toString for the small naturals used as counters
RECURSIVE ToChars(_)
ToChars(n) == IF n < 10 THEN <<Digit[n + 1]>> ELSE ToChars(n \div 10) \o <<Digit[(n % 10) + 1]>>

\* String.prototype.startsWith
startsWith(s, p) == Len(s) >= Len(p) /\ SubSeq(s, 1, Len(p)) = p

-----------------------------------------------------------------------------
(* Types of ../types used by the store *)
ExpenseCategory == <<"Transport", "Materiel">>
CurrentYear == 2026
DefaultSettings == [associationName |-> "A.E.U.C.A.B.DK", currency |-> "FCFA", logoUrl |-> ""]

TempPrefix == <<"b", "-">>
\* `b-${index}` with the 0-based index of Object.values(ExpenseCategory).map
TempId(index) == TempPrefix \o ToChars(index)

\* The identifiers the remote store assigns: never of the form b-..., which is
\* what the source relies on (a uuid or a serial number).
ServerId(k) == <<"b">> \o ToChars(k)

-----------------------------------------------------------------------------
(* The remote store (supabase): one request, one answer.  A request is      *)
(* [table, verb, row, id, returning]; an answer is [error, hasData, data,   *)
(* thrown] for the { data, error } object the client resolves with, or for  *)
(* a rejected promise (thrown).                                             *)
Tables == {"members", "transactions", "budgets", "messages", "settings"}
NoRow == [none |-> TRUE]
Req(table, verb, row, id, returning) ==
    [table |-> table, verb |-> verb, row |-> row, id |-> id, returning |-> returning]
NoAnswer == [error |-> FALSE, hasData |-> FALSE, data |-> <<>>, thrown |-> FALSE]
WithData(rows) == [error |-> FALSE, hasData |-> TRUE, data |-> rows, thrown |-> FALSE]
Failed == [error |-> TRUE, hasData |-> FALSE, data |-> <<>>, thrown |-> FALSE]
Thrown == [error |-> FALSE, hasData |-> FALSE, data |-> <<>>, thrown |-> TRUE]

\* The credential records of the remote users table
UsersTable == <<
    [email |-> "tresorier@asso.com", password |-> "pw-t", role |-> "TRESORIER", member_id |-> Null],
    [email |-> "membre@asso.com", password |-> "pw-m", role |-> "MEMBRE", member_id |-> Some(<<"a", "1">>)] >>

\* .insert([row]): the store assigns the identifier and, in messages, the column
\* created_at (its own clock, later for a later insert; the seed rows are earlier)
InsertedRow(table, row) ==
    IF table = "messages" THEN [id |-> ServerId(nextId), created_at |-> nextId + 1] @@ row
    ELSE [id |-> ServerId(nextId)] @@ row
\* .update(patch).eq('id', id)
UpdatedRows(rows, patch, id) == Map(rows, LAMBDA r : IF r.id = id THEN patch @@ r ELSE r)
\* .delete().eq('id', id)
RemainingRows(rows, id) == SelectSeq(rows, LAMBDA r : r.id # id)
\* (a variant that forgets .eq('password', p))
MatchingUsers_EmailOnly(email, pass) ==
    SelectSeq(UsersTable, LAMBDA u : u.email = email)

\* .select('*').eq('email', e).eq('password', p)
MatchingUsers(email, pass) ==
    SelectSeq(UsersTable, LAMBDA u : u.email = email /\ u.password = pass)
\* .single(): the row when exactly one row matches, otherwise an error and no data
Single(rows) == IF Len(rows) = 1 THEN WithData(rows) ELSE Failed

\* The postgres_changes events the channel carries: INSERT and DELETE on messages,
\* each with the full new / old row, only once the channel has joined.
EventsOf(req) ==
    IF ~channel.joined \/ req.table # "messages" THEN <<>>
    ELSE IF req.verb = "insert" THEN <<[type |-> "INSERT", row |-> InsertedRow(req.table, req.row)]>>
    ELSE IF req.verb = "delete"
         THEN Map(SelectSeq(db[req.table], LAMBDA r : r.id = req.id),
                  LAMBDA r : [type |-> "DELETE", row |-> r])
    ELSE <<>>

\* The collections after the store has executed req
DbAfter(req) ==
    CASE req.verb = "insert" -> [db EXCEPT ![req.table] = Append(@, InsertedRow(req.table, req.row))]
      [] req.verb = "update" -> [db EXCEPT ![req.table] = UpdatedRows(@, req.row, req.id)]
      [] req.verb = "delete" -> [db EXCEPT ![req.table] = RemainingRows(@, req.id)]
      [] OTHER -> db

\* The answer to a request the store has executed: .insert().select() returns the
\* inserted row, a bare insert / update / delete returns no data.
AnswerTo(req) ==
    CASE req.verb = "insert" /\ req.returning -> WithData(<<InsertedRow(req.table, req.row)>>)
      [] req.verb = "single" -> Single(MatchingUsers(req.row.email, req.row.password))
      [] OTHER -> NoAnswer

-----------------------------------------------------------------------------
(* Field mappers, lines 355-376 *)
\* parseFloat of a numeric column: the number it holds
parseFloat(x) == x

\* A value of a JSON column is [isString, empty, wellFormed, value]: a text, or an
\* object the store has already decoded.  JSON.stringify builds a well-formed
\* text; JSON.parse returns the value of a well-formed text and throws on any
\* other text, the empty one included.
JSONstringify(v) == [isString |-> TRUE, empty |-> FALSE, wellFormed |-> TRUE, value |-> v]
JSONparse(text) == text.value
JSONparseThrows(text) == ~text.wellFormed

\* m.member_info_json ? ... : undefined: null and the empty text are falsy
truthy(x) == x # Null /\ ~x[1].empty

\* s.logo_url || '': null and the empty text give the empty text
orEmpty(x) == IF x = Null \/ x[1] = "" THEN "" ELSE x[1]

mapMember(m) ==
    [id |-> m.id, uniqueId |-> m.unique_id, sector |-> m.sector, level |-> m.level,
     gender |-> m.gender, balance |-> parseFloat(m.balance)]

mapTransaction(t) ==
    [id |-> t.id, type |-> t.type, category |-> t.category, amount |-> parseFloat(t.amount),
     date |-> t.date, receiptNumber |-> t.receipt_number, status |-> t.status]

mapBudget(b) ==
    [id |-> b.id, category |-> b.category, allocatedAmount |-> parseFloat(b.allocated_amount),
     spentAmount |-> 0, year |-> b.year]

mapMessage(m) ==
    [id |-> m.id, userId |-> m.user_id, userRole |-> m.user_role, content |-> m.content,
     timestamp |-> m.created_at,
     memberInfo |-> IF truthy(m.member_info_json)
                    THEN Some(IF m.member_info_json[1].isString
                              THEN JSONparse(m.member_info_json[1])
                              ELSE m.member_info_json[1].value)
                    ELSE Null]
mapMessageThrows(m) ==
    /\ truthy(m.member_info_json)
    /\ m.member_info_json[1].isString
    /\ JSONparseThrows(m.member_info_json[1])

-----------------------------------------------------------------------------
(* The state after construction and mount: the cache is empty, fetchData    *)
(* has issued its five selects, the channel is joining.  The remote         *)
(* collections hold what earlier sessions left there.                       *)
SeedId(k) == <<"a">> \o ToChars(k)
\* The clock reading at mount: the seed rows were written before
MountTime == 2
SeedMember ==
    [id |-> SeedId(1), unique_id |-> <<"A", "1", "0", "0", "0", "0", "0", "0", "0", "0", "0", "1">>,
     sector |-> "INFO", level |-> "L2", gender |-> "M", balance |-> 5]
SeedExpense ==
    [id |-> SeedId(2), type |-> "EXPENSE", category |-> "Transport", amount |-> 2, date |-> 1,
     receipt_number |-> Null, status |-> "APPROVED"]
SeedPending ==
    [id |-> SeedId(3), type |-> "EXPENSE", category |-> "Transport", amount |-> 1, date |-> 2,
     receipt_number |-> Null, status |-> "PENDING"]
SeedIncome ==
    [id |-> SeedId(6), type |-> "INCOME", category |-> "Cotisation", amount |-> 3, date |-> 1,
     receipt_number |-> <<"R", "E", "C", "-", "1">>, status |-> "APPROVED"]
SeedMateriel ==
    [id |-> SeedId(7), type |-> "EXPENSE", category |-> "Materiel", amount |-> 4, date |-> 2,
     receipt_number |-> Null, status |-> "APPROVED"]
SeedBudget ==
    [id |-> SeedId(4), category |-> "Transport", allocated_amount |-> 5, year |-> CurrentYear]
SeedMessage ==
    [id |-> SeedId(5), user_id |-> "membre@asso.com", user_role |-> "MEMBRE", content |-> "hello",
     member_info_json |-> Null, created_at |-> 0]
\* logo_url is a nullable text column: Null, or Some(text)
SeedSettings ==
    [id |-> <<"1">>, association_name |-> "UCAB", currency |-> "FCFA",
     logo_url |-> Some("logo.png")]
SeedSettingsNoLogo ==
    [id |-> <<"1">>, association_name |-> "UCAB", currency |-> "FCFA", logo_url |-> Null]

InitWith(remote) ==
    /\ user = Null
    /\ transactions = <<>>
    /\ members = <<>>
    /\ budgets = <<>>
    /\ messages = <<>>
    /\ settings = DefaultSettings
    /\ isLoading = TRUE
    /\ rendered = snapshot
    /\ depsSet = FALSE
    /\ effectPending = FALSE
    /\ db = remote
    /\ nextId = 1
    /\ ops = {}
    /\ fetch = [pc |-> "awaiting", res |-> [t \in Tables |-> NoAnswer], got |-> {}]
    /\ channel = [joined |-> FALSE, events |-> <<>>, missed |-> FALSE]
    /\ nCalls = 0
    /\ clock = MountTime
    /\ returned = Null

-----------------------------------------------------------------------------
(* fetchData, lines 379-417 *)
DefaultBudgets ==
    [i \in 1..Len(ExpenseCategory) |->
        [id |-> TempId(i - 1), category |-> ExpenseCategory[i], allocatedAmount |-> 0,
         spentAmount |-> 0, year |-> CurrentYear]]

\* The rows of a collection in the orders a select without .order() may return
\* them: the store chooses
Arrangements(rows) ==
    IF rows = <<>> THEN {<<>>}
    ELSE {[i \in 1..Len(rows) |-> rows[p[i]]] :
             p \in {q \in [1..Len(rows) -> 1..Len(rows)] :
                       \A i, j \in 1..Len(rows) : i # j => q[i] # q[j]}}

\* .order(column, { ascending }): the rows sorted on the column; the store chooses
\* the order of rows that hold the same value
Ordered(rows, column, ascending) ==
    {s \in Arrangements(rows) :
        \A i \in 1..(Len(s) - 1) : IF ascending THEN s[i][column] <= s[i + 1][column]
                                                 ELSE s[i][column] >= s[i + 1][column]}

\* What the store may answer to each of the five selects of lines 383-387
SelectAnswers(t) ==
    CASE t = "transactions" -> Ordered(db[t], "date", FALSE)
      [] t = "messages" -> Ordered(db[t], "created_at", TRUE)
      [] t = "settings" -> {SubSeq(s, 1, IF s = <<>> THEN 0 ELSE 1) : s \in Arrangements(db[t])}
      [] OTHER -> Arrangements(db[t])

\* The five selects are issued together and the store executes each at its own
\* instant: it answers the select on t with the rows it holds then, or (failing)
\* the client resolves with an error.
fetchDataRemote(t, failing) ==
    /\ fetch.pc = "awaiting"
    /\ t \notin fetch.got
    /\ \E rows \in SelectAnswers(t) :
          fetch' = [fetch EXCEPT !.got = @ \cup {t},
                                 !.res[t] = IF failing THEN Failed ELSE WithData(rows)]
    /\ UNCHANGED <<cache, isLoading, effectPending, rendered, depsSet, db, nextId, ops, channel,
                   nCalls, clock, returned>>

\* The promise of the select on t rejects: the Promise.all rejects with it
fetchDataThrow(t) ==
    /\ fetch.pc = "awaiting"
    /\ t \notin fetch.got
    /\ fetch' = [fetch EXCEPT !.got = @ \cup {t}, !.res[t] = Thrown]
    /\ UNCHANGED <<cache, isLoading, effectPending, rendered, depsSet, db, nextId, ops, channel,
                   nCalls, clock, returned>>

FetchRejected == \E t \in fetch.got : fetch.res[t].thrown
FetchDone == [pc |-> "done", res |-> [t \in Tables |-> NoAnswer], got |-> {}]

\* The continuation of the Promise.all, once the five selects are answered or one
\* has rejected.  A rejection, and a throw of mapMessage on a malformed
\* member_info_json, lead to the catch: a rejection skips every setState but
\* setIsLoading(false), the throw skips setMessages, setSettings and setBudgets.
fetchDataResolve ==
    /\ fetch.pc = "awaiting"
    /\ fetch.got = Tables \/ FetchRejected
    /\ IF FetchRejected
       THEN UNCHANGED <<members, transactions, depsSet, messages, settings, budgets>>
       ELSE LET resM == fetch.res["members"]
                resT == fetch.res["transactions"]
                resB == fetch.res["budgets"]
                resMsg == fetch.res["messages"]
                resS == fetch.res["settings"]
                throws == resMsg.hasData
                          /\ \E i \in 1..Len(resMsg.data) : mapMessageThrows(resMsg.data[i])
                dbBudgets == IF resB.hasData THEN Map(resB.data, mapBudget) ELSE <<>>
            IN /\ members' = IF resM.hasData THEN Map(resM.data, mapMember) ELSE members
               /\ transactions' = IF resT.hasData THEN Map(resT.data, mapTransaction)
                                  ELSE transactions
               /\ depsSet' = (depsSet \/ resT.hasData)
               /\ IF throws THEN UNCHANGED <<messages, settings, budgets>>
                  ELSE /\ messages' = IF resMsg.hasData THEN Map(resMsg.data, mapMessage)
                                      ELSE messages
                       /\ settings' = IF resS.hasData /\ Len(resS.data) > 0
                                      THEN [associationName |-> resS.data[1].association_name,
                                            currency |-> resS.data[1].currency,
                                            logoUrl |-> orEmpty(resS.data[1].logo_url)]
                                      ELSE settings
                       /\ budgets' = IF Len(dbBudgets) = 0 THEN DefaultBudgets ELSE dbBudgets
    /\ isLoading' = FALSE
    /\ fetch' = FetchDone
    /\ UNCHANGED <<user, rendered, effectPending, db, nextId, ops, channel, nCalls, clock,
                   returned>>

-----------------------------------------------------------------------------
(* The budget recompute effect, lines 439-451, and the render.  A render    *)
(* that follows a setTransactions schedules the effect, which reads the     *)
(* transactions and the budgets of that render (its closure).  React runs   *)
(* a scheduled effect on its own, or at the latest before the next render   *)
(* begins; its setBudgets(newBudgets) is queued after the updates made      *)
(* since that render and replaces what they made of budgets.                *)
spentOf(T, category) ==
    SumSeq(Map(SelectSeq(T, LAMBDA t : t.type = "EXPENSE" /\ t.category = category
                                       /\ t.status = "APPROVED"),
               LAMBDA t : t.amount))

\* (a variant that adds the spent total to the one the budget already shows)
recompute_Accumulate(T, B) ==
    Map(B, LAMBDA b : [b EXCEPT !.spentAmount = b.spentAmount + spentOf(T, b.category)])

recompute(T, B) == Map(B, LAMBDA b : [b EXCEPT !.spentAmount = spentOf(T, b.category)])

\* JSON.stringify(newBudgets) !== JSON.stringify(budgets)
budgetsDiffer(newBudgets, B) == JSONstringify(newBudgets) # JSONstringify(B)

\* (a variant whose dependency list is [transactions, budgets]: the effect's own
\* setBudgets schedules it again)
recomputeEffect_BudgetsInDeps ==
    /\ effectPending
    /\ LET newBudgets == recompute(rendered.transactions, rendered.budgets)
       IN /\ budgets' = IF budgetsDiffer(newBudgets, rendered.budgets) THEN newBudgets
                         ELSE budgets
          /\ depsSet' = (depsSet \/ budgetsDiffer(newBudgets, rendered.budgets))
    /\ effectPending' = FALSE
    /\ UNCHANGED <<user, transactions, members, messages, settings, isLoading, rendered, db,
                   nextId, ops, fetch, channel, nCalls, clock, returned>>

\* The effect runs: budgets and transactions are those of the render that
\* scheduled it
recomputeEffect ==
    /\ effectPending
    /\ LET newBudgets == recompute(rendered.transactions, rendered.budgets)
       IN budgets' = IF budgetsDiffer(newBudgets, rendered.budgets) THEN newBudgets ELSE budgets
    /\ effectPending' = FALSE
    /\ UNCHANGED <<user, transactions, members, messages, settings, isLoading, rendered,
                   depsSet, db, nextId, ops, fetch, channel, nCalls, clock, returned>>

\* Updates are queued: a render is due
RenderDue == depsSet \/ rendered # snapshot

\* React renders: the scheduled effect has been flushed, the queued updates are
\* applied and shown, and the effect is scheduled when transactions was set
render ==
    /\ RenderDue
    /\ ~effectPending
    /\ rendered' = snapshot
    /\ effectPending' = depsSet
    /\ depsSet' = FALSE
    /\ UNCHANGED <<cache, isLoading, db, nextId, ops, fetch, channel, nCalls, clock, returned>>

-----------------------------------------------------------------------------
(* Calls suspended on a round trip.  A call records its number, its entry   *)
(* point, its arguments, the request it issued, the answer once the store   *)
(* has given one, and the session it read when it was made.                 *)
CanCall == nCalls < MaxCalls /\ Cardinality(ops) < MaxInFlight

Issue(kind, arg, req) ==
    /\ CanCall
    /\ ops' = ops \cup {[n |-> nCalls + 1, kind |-> kind, pc |-> "sent", arg |-> arg,
                         req |-> req, res |-> NoAnswer, by |-> rendered.session]}
    /\ nCalls' = nCalls + 1

Answered(o, res) == (ops \ {o}) \cup {[o EXCEPT !.pc = "responded", !.res = res]}

\* The store executes the request of a suspended call
remoteOk(o) ==
    /\ o.pc = "sent"
    /\ db' = DbAfter(o.req)
    /\ nextId' = IF o.req.verb = "insert" THEN nextId + 1 ELSE nextId
    /\ channel' = [channel EXCEPT !.events = @ \o EventsOf(o.req),
                                  !.missed = @ \/ (~channel.joined /\ DbAfter(o.req) # db
                                                   /\ o.req.table = "messages")]
    /\ ops' = Answered(o, AnswerTo(o.req))
    /\ UNCHANGED <<cache, isLoading, effectPending, rendered, depsSet, fetch, nCalls, clock,
                   returned>>

\* The store (or the network) fails the request: the client resolves with { error }
remoteError(o) ==
    /\ o.pc = "sent"
    /\ ops' = Answered(o, Failed)
    /\ UNCHANGED <<cache, isLoading, effectPending, rendered, depsSet, db, nextId, fetch,
                   channel, nCalls, clock, returned>>

\* The awaited promise rejects; only login has a handler for it (line 475)
remoteThrow(o) ==
    /\ o.pc = "sent"
    /\ o.kind = "login"
    /\ ops' = Answered(o, Thrown)
    /\ UNCHANGED <<cache, isLoading, effectPending, rendered, depsSet, db, nextId, fetch,
                   channel, nCalls, clock, returned>>

Resolving(o, kind) == o.pc = "responded" /\ o.kind = kind

-----------------------------------------------------------------------------
(* login / logout, lines 455-479 *)
Emails == {"tresorier@asso.com", "membre@asso.com", "inconnu@asso.com"}
Passwords == {"pw-t", "pw-m"}

loginCall(email, pass) ==
    /\ Issue("login", [email |-> email, pass |-> pass],
             Req("users", "single", [email |-> email, password |-> pass], Null, FALSE))
    /\ UNCHANGED <<cache, isLoading, effectPending, rendered, depsSet, db, nextId, fetch,
                   channel, clock, returned>>

sessionOf(data) ==
    [email |-> data.email, role |-> data.role, memberId |-> data.member_id]

loginResolve(o) ==
    /\ Resolving(o, "login")
    /\ IF ~o.res.thrown /\ o.res.hasData
       THEN /\ user' = Some(sessionOf(o.res.data[1]))
            /\ returned' = Some(TRUE)
       ELSE /\ user' = user
            /\ returned' = Some(FALSE)
    /\ ops' = ops \ {o}
    /\ UNCHANGED <<transactions, members, budgets, messages, settings, isLoading,
                   effectPending, rendered, depsSet, db, nextId, fetch, channel, nCalls, clock>>

\* (a variant that also empties the cached collections of the session)
logout_ClearsCache ==
    /\ user' = Null
    /\ members' = <<>>
    /\ messages' = <<>>
    /\ UNCHANGED <<transactions, budgets, settings, isLoading, rendered, depsSet,
                   effectPending, db, nextId, ops, fetch, channel, nCalls, clock, returned>>

\* setUser(null): the update is queued like every other one, whoever calls
\* logout and whatever is shown; the provider shows the session of the last
\* render until React renders again
logout ==
    /\ user' = Null
    /\ UNCHANGED <<transactions, members, budgets, messages, settings, isLoading, rendered,
                   depsSet, effectPending, db, nextId, ops, fetch, channel, nCalls, clock,
                   returned>>

-----------------------------------------------------------------------------
(* Transactions, lines 481-521 *)
TxInputs ==
    { [type |-> "INCOME", category |-> "Cotisation", amount |-> 3, date |-> 2],
      [type |-> "EXPENSE", category |-> "Transport", amount |-> 2, date |-> 3] }

\* Date.now(): a reading of the clock in milliseconds, the millisecond of the
\* previous reading or a later one
DateNow == {clock, clock + 1}

\* (a variant that numbers every transaction)
receiptNumberOf_AnyType(type, now) == <<"R", "E", "C", "-">> \o ToChars(now)

\* t.type === TransactionType.INCOME ? `REC-${Date.now()}` : null
receiptNumberOf(type, now) ==
    IF type = "INCOME" THEN <<"R", "E", "C", "-">> \o ToChars(now) ELSE Null

\* (a variant that approves for any session)
statusFor_AnySession(u) == IF u # Null THEN "APPROVED" ELSE "PENDING"

\* (user?.role === UserRole.TRESORIER) ? 'APPROVED' : 'PENDING'
statusFor(u) == IF u # Null /\ u[1].role = "TRESORIER" THEN "APPROVED" ELSE "PENDING"

addTransactionCall(t, now) ==
    /\ LET newTx == [type |-> t.type, category |-> t.category, amount |-> t.amount,
                     date |-> t.date, receipt_number |-> receiptNumberOf(t.type, now),
                     status |-> statusFor(rendered.session)]
       IN Issue("addTransaction", t, Req("transactions", "insert", newTx, Null, TRUE))
    /\ clock' = now
    /\ UNCHANGED <<cache, isLoading, effectPending, rendered, depsSet, db, nextId, fetch,
                   channel, returned>>

addTransactionResolve(o) ==
    /\ Resolving(o, "addTransaction")
    /\ IF o.res.hasData
       THEN /\ transactions' = <<mapTransaction(o.res.data[1])>> \o transactions
            /\ depsSet' = TRUE
       ELSE UNCHANGED <<transactions, depsSet>>
    /\ ops' = ops \ {o}
    /\ UNCHANGED <<user, members, budgets, messages, settings, isLoading, rendered,
                   effectPending, db, nextId, fetch, channel, nCalls, clock, returned>>

\* The transactions the user can pick: those shown
CachedTxIds == {rendered.transactions[i].id : i \in 1..Len(rendered.transactions)}

\* prev.map(t => t.id === id ? { ...t, status } : t)
withStatus(T, id, status) ==
    Map(T, LAMBDA t : IF t.id = id THEN [t EXCEPT !.status = status] ELSE t)

approveTransactionCall(id) ==
    /\ Issue("approveTransaction", [id |-> id],
             Req("transactions", "update", [status |-> "APPROVED"], id, FALSE))
    /\ UNCHANGED <<cache, isLoading, effectPending, rendered, depsSet, db, nextId, fetch,
                   channel, clock, returned>>

approveTransactionResolve(o) ==
    /\ Resolving(o, "approveTransaction")
    /\ IF ~o.res.error
       THEN /\ transactions' = withStatus(transactions, o.arg.id, "APPROVED")
            /\ depsSet' = TRUE
       ELSE UNCHANGED <<transactions, depsSet>>
    /\ ops' = ops \ {o}
    /\ UNCHANGED <<user, members, budgets, messages, settings, isLoading, rendered,
                   effectPending, db, nextId, fetch, channel, nCalls, clock, returned>>

rejectTransactionCall(id) ==
    /\ Issue("rejectTransaction", [id |-> id],
             Req("transactions", "update", [status |-> "REJECTED"], id, FALSE))
    /\ UNCHANGED <<cache, isLoading, effectPending, rendered, depsSet, db, nextId, fetch,
                   channel, clock, returned>>

rejectTransactionResolve(o) ==
    /\ Resolving(o, "rejectTransaction")
    /\ IF ~o.res.error
       THEN /\ transactions' = withStatus(transactions, o.arg.id, "REJECTED")
            /\ depsSet' = TRUE
       ELSE UNCHANGED <<transactions, depsSet>>
    /\ ops' = ops \ {o}
    /\ UNCHANGED <<user, members, budgets, messages, settings, isLoading, rendered,
                   effectPending, db, nextId, fetch, channel, nCalls, clock, returned>>

deleteTransactionCall(id) ==
    /\ Issue("deleteTransaction", [id |-> id], Req("transactions", "delete", NoRow, id, FALSE))
    /\ UNCHANGED <<cache, isLoading, effectPending, rendered, depsSet, db, nextId, fetch,
                   channel, clock, returned>>

deleteTransactionResolve(o) ==
    /\ Resolving(o, "deleteTransaction")
    /\ IF ~o.res.error
       THEN /\ transactions' = SelectSeq(transactions, LAMBDA t : t.id # o.arg.id)
            /\ depsSet' = TRUE
       ELSE UNCHANGED <<transactions, depsSet>>
    /\ ops' = ops \ {o}
    /\ UNCHANGED <<user, members, budgets, messages, settings, isLoading, rendered,
                   effectPending, db, nextId, fetch, channel, nCalls, clock, returned>>

-----------------------------------------------------------------------------
(* Budgets, lines 550-570 *)
Amounts == {0, 7}

\* id.startsWith('b-')
isTempId(id) == startsWith(id, TempPrefix)

updateBudgetCall(id, amount, category) ==
    /\ LET budgetData == [category |-> category, allocated_amount |-> amount, year |-> CurrentYear]
       IN IF isTempId(id)
          THEN Issue("updateBudget", [id |-> id, amount |-> amount, category |-> category],
                     Req("budgets", "insert", budgetData, Null, TRUE))
          ELSE Issue("updateBudget", [id |-> id, amount |-> amount, category |-> category],
                     Req("budgets", "update", [allocated_amount |-> amount], id, FALSE))
    /\ UNCHANGED <<cache, isLoading, effectPending, rendered, depsSet, db, nextId, fetch,
                   channel, clock, returned>>

updateBudgetResolve(o) ==
    /\ Resolving(o, "updateBudget")
    /\ IF isTempId(o.arg.id)
       THEN budgets' = IF o.res.hasData
                       THEN Map(budgets, LAMBDA b : IF b.id = o.arg.id
                                                    THEN mapBudget(o.res.data[1]) ELSE b)
                       ELSE budgets
       ELSE budgets' = Map(budgets, LAMBDA b : IF b.id = o.arg.id
                                               THEN [b EXCEPT !.allocatedAmount = o.arg.amount]
                                               ELSE b)
    /\ ops' = ops \ {o}
    /\ UNCHANGED <<user, transactions, members, messages, settings, isLoading, rendered,
                   depsSet, effectPending, db, nextId, fetch, channel, nCalls, clock, returned>>

-----------------------------------------------------------------------------
(* Members, lines 523-548 *)
\* Math.random(): a double of [0, 1), written as the binary digits after the point
\* (0.5 is <<1>>): the bottom of the interval, a value inside, the top (1 - 2^-53)
RandomValues ==
    { [i \in 1..53 |-> 0],
      <<1,0,0,1,0,1,1,0,0,1,0,1,0,0,0,1,1,1,0,0,1,0,1,0,0,1,0,1,1,0,1,1,0,1,0,0,0,0,1,0,0,0,0,1,0,1,0,1,1,1,0,1,1>>,
      [i \in 1..53 |-> 1] }

\* The numbers of line 525 do not fit the integers of the model checker: a natural
\* is a binary numeral (a sequence of bits, the most significant first), and the
\* arithmetic is done on its limbs (its digits in base 2^14, the least significant
\* first)
LimbBits == 14
Limb == 2^LimbBits
Zeros(n) == [i \in 1..n |-> 0]
Strip(b) ==
    LET ones == {i \in 1..Len(b) : b[i] = 1}
    IN IF ones = {} THEN <<>> ELSE SubSeq(b, CHOOSE i \in ones : \A j \in ones : i <= j, Len(b))
BitsOf(n) == Strip([i \in 1..31 |-> (n \div 2^(31 - i)) % 2])
LimbCount(b) == (Len(b) + LimbBits - 1) \div LimbBits
LimbAt(b, j) ==
    SumSeq([k \in 1..LimbBits |->
               LET w == LimbBits * (j - 1) + k - 1
               IN IF w < Len(b) THEN b[Len(b) - w] * 2^(k - 1) ELSE 0])
FromLimbs(L) ==
    Strip([i \in 1..(LimbBits * Len(L)) |->
              LET w == LimbBits * Len(L) - i
              IN (L[w \div LimbBits + 1] \div 2^(w % LimbBits)) % 2])
RECURSIVE Carried(_, _)
Carried(C, carry) ==
    IF C = <<>> THEN (IF carry = 0 THEN <<>> ELSE <<carry % Limb>> \o Carried(C, carry \div Limb))
    ELSE <<(Head(C) + carry) % Limb>> \o Carried(Tail(C), (Head(C) + carry) \div Limb)
AddBits(a, b) ==
    LET n == IF LimbCount(a) > LimbCount(b) THEN LimbCount(a) ELSE LimbCount(b)
    IN FromLimbs(Carried([j \in 1..n |-> LimbAt(a, j) + LimbAt(b, j)], 0))
MulBits(a, b) ==
    FromLimbs(Carried([k \in 1..(LimbCount(a) + LimbCount(b)) |->
                          SumSeq([i \in 1..LimbCount(a) |->
                                     IF k + 1 - i \in 1..LimbCount(b)
                                     THEN LimbAt(a, i) * LimbAt(b, k + 1 - i) ELSE 0])], 0))

\* The result of a floating-point operation: the exact result rounded to the nearest
\* number of 53 significant bits, ties to the even one (the numeral keeps its scale)
roundToDouble(b) ==
    LET s == Strip(b)
    IN IF Len(s) <= 53 THEN s
       ELSE LET kept == SubSeq(s, 1, 53)
                rest == SubSeq(s, 54, Len(s))
                up == /\ rest[1] = 1
                      /\ (kept[53] = 1 \/ \E i \in 2..Len(rest) : rest[i] = 1)
            IN (IF up THEN AddBits(kept, <<1>>) ELSE kept) \o Zeros(Len(rest))

\* Math.floor(10000000000 + r * 90000000000): the product and the sum are doubles
floorOfScaled(r) ==
    LET tenTen == MulBits(BitsOf(100000), BitsOf(100000))
        product == roundToDouble(MulBits(r, MulBits(BitsOf(9), tenTen)))
        sum == roundToDouble(AddBits(tenTen \o Zeros(Len(r)), product))
    IN SubSeq(sum, 1, Len(sum) - Len(r))

\* Number.prototype.toString of a natural: its decimal digits
RECURSIVE DivMod10(_, _)
DivMod10(b, j) ==
    IF j > LimbCount(b) THEN <<<<>>, 0>>
    ELSE LET p == DivMod10(b, j + 1)
             v == Limb * p[2] + LimbAt(b, j)
         IN <<<<v \div 10>> \o p[1], v % 10>>
RECURSIVE toStringOf(_)
toStringOf(v) ==
    LET d == DivMod10(v, 1)
        q == FromLimbs(d[1])
    IN (IF q = <<>> THEN <<>> ELSE toStringOf(q)) \o <<Digit[d[2] + 1]>>

RandomSuffixes == {toStringOf(floorOfScaled(r)) : r \in RandomValues}

\* (a variant that gives every member the prefix A)
uniqueIdOf_AlwaysA(gender, randomSuffix) == <<"A">> \o randomSuffix

\* `${prefix}${randomSuffix}` with prefix = m.gender === Gender.MALE ? 'A' : 'B'
uniqueIdOf(gender, randomSuffix) == <<IF gender = "M" THEN "A" ELSE "B">> \o randomSuffix

addMemberCall(m, randomSuffix) ==
    /\ LET newMember == [unique_id |-> uniqueIdOf(m.gender, randomSuffix), sector |-> m.sector,
                         level |-> m.level, gender |-> m.gender, balance |-> m.balance]
       IN Issue("addMember", m, Req("members", "insert", newMember, Null, TRUE))
    /\ UNCHANGED <<cache, isLoading, effectPending, rendered, depsSet, db, nextId, fetch,
                   channel, clock, returned>>

addMemberResolve(o) ==
    /\ Resolving(o, "addMember")
    /\ members' = IF o.res.hasData THEN Append(members, mapMember(o.res.data[1])) ELSE members
    /\ ops' = ops \ {o}
    /\ UNCHANGED <<user, transactions, budgets, messages, settings, isLoading, effectPending,
                   rendered, depsSet, db, nextId, fetch, channel, nCalls, clock, returned>>

deleteMemberCall(id) ==
    /\ Issue("deleteMember", [id |-> id], Req("members", "delete", NoRow, id, FALSE))
    /\ UNCHANGED <<cache, isLoading, effectPending, rendered, depsSet, db, nextId, fetch,
                   channel, clock, returned>>

deleteMemberResolve(o) ==
    /\ Resolving(o, "deleteMember")
    /\ members' = IF ~o.res.error THEN SelectSeq(members, LAMBDA m : m.id # o.arg.id) ELSE members
    /\ ops' = ops \ {o}
    /\ UNCHANGED <<user, transactions, budgets, messages, settings, isLoading, effectPending,
                   rendered, depsSet, db, nextId, fetch, channel, nCalls, clock, returned>>

-----------------------------------------------------------------------------
(* Settings, lines 572-579 *)
updateSettingsCall(s) ==
    /\ Issue("updateSettings", s,
             Req("settings", "update",
                 [association_name |-> s.associationName, currency |-> s.currency,
                  logo_url |-> Some(s.logoUrl)], <<"1">>, FALSE))
    /\ UNCHANGED <<cache, isLoading, effectPending, rendered, depsSet, db, nextId, fetch,
                   channel, clock, returned>>

updateSettingsResolve(o) ==
    /\ Resolving(o, "updateSettings")
    /\ settings' = o.arg
    /\ ops' = ops \ {o}
    /\ UNCHANGED <<user, transactions, members, budgets, messages, isLoading, effectPending,
                   rendered, depsSet, db, nextId, fetch, channel, nCalls, clock, returned>>

-----------------------------------------------------------------------------
(* Community messages, lines 582-607 *)
\* members.find(mem => mem.id === user.memberId), then { sector, level }
memberInfoOf(u) ==
    IF u[1].memberId = Null THEN Null
    ELSE LET found == SelectSeq(rendered.members, LAMBDA mem : mem.id = u[1].memberId[1])
         IN IF found = <<>> THEN Null
            ELSE Some([sector |-> found[1].sector, level |-> found[1].level])

addMessageCall(content) ==
    /\ rendered.session # Null
    /\ LET memberInfo == memberInfoOf(rendered.session)
           newMsg == [user_id |-> rendered.session[1].email,
                      user_role |-> rendered.session[1].role,
                      member_info_json |-> IF memberInfo # Null
                                           THEN Some(JSONstringify(memberInfo[1])) ELSE Null,
                      content |-> content]
       IN Issue("addMessage", [content |-> content],
                Req("messages", "insert", newMsg, Null, FALSE))
    /\ UNCHANGED <<cache, isLoading, effectPending, rendered, depsSet, db, nextId, fetch,
                   channel, clock, returned>>

\* if (!user) return;
addMessageNoUser ==
    /\ rendered.session = Null
    /\ CanCall
    /\ nCalls' = nCalls + 1
    /\ UNCHANGED <<cache, isLoading, effectPending, rendered, depsSet, db, nextId, ops, fetch,
                   channel, clock, returned>>

deleteMessageCall(id) ==
    /\ Issue("deleteMessage", [id |-> id], Req("messages", "delete", NoRow, id, FALSE))
    /\ UNCHANGED <<cache, isLoading, effectPending, rendered, depsSet, db, nextId, fetch,
                   channel, clock, returned>>

\* (a variant of addMessage that also appends the message itself after the await, as
\* the store of lines 230-251 does with setMessages(prev => [...prev, newMsg]))
messageCallResolve_Optimistic(o) ==
    /\ o.pc = "responded"
    /\ o.kind \in {"addMessage", "deleteMessage"}
    /\ messages' = IF o.kind = "addMessage"
                   THEN Append(messages, [id |-> <<"l", "0">>, userId |-> o.req.row.user_id,
                                          userRole |-> o.req.row.user_role,
                                          content |-> o.req.row.content, timestamp |-> 0,
                                          memberInfo |-> Null])
                   ELSE messages
    /\ ops' = ops \ {o}
    /\ UNCHANGED <<user, transactions, members, budgets, settings, isLoading, effectPending,
                   rendered, depsSet, db, nextId, fetch, channel, nCalls, clock, returned>>

\* Nothing follows the await of addMessage and of deleteMessage
messageCallResolve(o) ==
    /\ o.pc = "responded"
    /\ o.kind \in {"addMessage", "deleteMessage"}
    /\ ops' = ops \ {o}
    /\ UNCHANGED <<cache, isLoading, effectPending, rendered, depsSet, db, nextId, fetch,
                   channel, nCalls, clock, returned>>

-----------------------------------------------------------------------------
(* The realtime subscription, lines 419-437 *)
\* .subscribe() has joined the channel: events of later changes are delivered
channelJoined ==
    /\ ~channel.joined
    /\ channel' = [channel EXCEPT !.joined = TRUE]
    /\ UNCHANGED <<cache, isLoading, effectPending, rendered, depsSet, db, nextId, ops, fetch,
                   nCalls, clock, returned>>

\* The INSERT handler: a throw of mapMessage leaves the handler before setMessages
onInsert ==
    /\ channel.events # <<>>
    /\ Head(channel.events).type = "INSERT"
    /\ LET payload == Head(channel.events)
       IN messages' = IF mapMessageThrows(payload.row) THEN messages
                      ELSE Append(messages, mapMessage(payload.row))
    /\ channel' = [channel EXCEPT !.events = Tail(@)]
    /\ UNCHANGED <<user, transactions, members, budgets, settings, isLoading, effectPending,
                   rendered, depsSet, db, nextId, ops, fetch, nCalls, clock, returned>>

\* The DELETE handler
onDelete ==
    /\ channel.events # <<>>
    /\ Head(channel.events).type = "DELETE"
    /\ LET payload == Head(channel.events)
       IN messages' = SelectSeq(messages, LAMBDA m : m.id # payload.row.id)
    /\ channel' = [channel EXCEPT !.events = Tail(@)]
    /\ UNCHANGED <<user, transactions, members, budgets, settings, isLoading, effectPending,
                   rendered, depsSet, db, nextId, ops, fetch, nCalls, clock, returned>>

-----------------------------------------------------------------------------
(* The derived stats of the provider value, lines 609-618: the body of a     *)
(* render computes them from the transactions of that render.               *)
totalIncomeOf(T) ==
    SumSeq(Map(SelectSeq(T, LAMBDA t : t.type = "INCOME" /\ t.status = "APPROVED"),
               LAMBDA t : t.amount))

totalExpenseOf(T) ==
    SumSeq(Map(SelectSeq(T, LAMBDA t : t.type = "EXPENSE" /\ t.status = "APPROVED"),
               LAMBDA t : t.amount))

pendingCountOf(T) == Len(SelectSeq(T, LAMBDA t : t.status = "PENDING"))

\* What a render of the transactions T hands to the consumers
statsOf(T) ==
    [balance |-> totalIncomeOf(T) - totalExpenseOf(T), totalIncome |-> totalIncomeOf(T),
     totalExpense |-> totalExpenseOf(T), pendingCount |-> pendingCountOf(T)]

\* What the provider shows: the stats of the last render
totalIncome == totalIncomeOf(rendered.transactions)

totalExpense == totalExpenseOf(rendered.transactions)

balance == totalIncome - totalExpense

pendingCount == pendingCountOf(rendered.transactions)

stats == [balance |-> balance, totalIncome |-> totalIncome, totalExpense |-> totalExpense,
          pendingCount |-> pendingCount]

-----------------------------------------------------------------------------
(* Specifications.  Each explores the entry points of one part of the store *)
(* together with the initial load and the store's answers.                  *)
\* The initial load; the selects on the collections of mayFail may fail or reject
Load(mayFail) ==
    \/ \E t \in Tables : fetchDataRemote(t, FALSE)
    \/ \E t \in mayFail : fetchDataRemote(t, TRUE)
    \/ \E t \in mayFail : fetchDataThrow(t)
    \/ fetchDataResolve

Round ==
    \/ \E o \in ops : remoteOk(o)
    \/ \E o \in ops : remoteError(o)

Remote(M, T, B, Msg, S) ==
    [members |-> M, transactions |-> T, budgets |-> B, messages |-> Msg, settings |-> S]

\* Transactions under the sessions of the two credential records
Credentials == {<<UsersTable[i].email, UsersTable[i].password>> : i \in 1..Len(UsersTable)}

InitTx ==
    \E T \in {<<>>, <<SeedExpense, SeedPending>>} :
        InitWith(Remote(<<>>, T, <<SeedBudget>>, <<>>, <<>>))

NextTx ==
    \/ Load({"transactions"})
    \/ Round
    \/ \E c \in Credentials : loginCall(c[1], c[2])
    \/ \E o \in ops : loginResolve(o)
    \/ \E t \in TxInputs, now \in DateNow : addTransactionCall(t, now)
    \/ \E o \in ops : addTransactionResolve(o)
    \/ \E id \in CachedTxIds : approveTransactionCall(id)
    \/ \E o \in ops : approveTransactionResolve(o)
    \/ \E id \in CachedTxIds : rejectTransactionCall(id)
    \/ \E o \in ops : rejectTransactionResolve(o)
    \/ \E id \in CachedTxIds : deleteTransactionCall(id)
    \/ \E o \in ops : deleteTransactionResolve(o)
    \/ recomputeEffect
    \/ render

SpecTx == InitTx /\ [][NextTx]_vars

\* Budgets over the transactions an earlier session left
InitBudget ==
    \E B \in {<<>>, <<SeedBudget>>} :
        InitWith(Remote(<<>>, <<SeedIncome, SeedExpense, SeedPending>>, B, <<>>, <<>>))

NextBudget ==
    \/ Load({"transactions", "budgets"})
    \/ Round
    \/ \E i \in 1..Len(rendered.budgets), amount \in Amounts :
           updateBudgetCall(rendered.budgets[i].id, amount, rendered.budgets[i].category)
    \/ \E o \in ops : updateBudgetResolve(o)
    \/ \E id \in CachedTxIds : approveTransactionCall(id)
    \/ \E o \in ops : approveTransactionResolve(o)
    \/ recomputeEffect
    \/ render

SpecBudget == InitBudget /\ [][NextBudget]_vars

\* The session
InitSession == InitWith(Remote(<<SeedMember>>, <<>>, <<>>, <<>>, <<SeedSettings>>))

NextSession ==
    \/ Load({"members"})
    \/ Round
    \/ \E email \in Emails, pass \in Passwords : loginCall(email, pass)
    \/ \E o \in ops : remoteThrow(o)
    \/ \E o \in ops : loginResolve(o)
    \/ logout
    \/ recomputeEffect
    \/ render

SpecSession == InitSession /\ [][NextSession]_vars

\* The members and the settings
MemberInputs == {[gender |-> "M", sector |-> "INFO", level |-> "L2", balance |-> 0],
                 [gender |-> "F", sector |-> "ELEC", level |-> "L3", balance |-> 0]}
SettingsInputs == {[associationName |-> "UCAB", currency |-> "EUR", logoUrl |-> ""]}

NextAdmin ==
    \/ Load({"members", "settings"})
    \/ Round
    \/ \E m \in MemberInputs, randomSuffix \in RandomSuffixes : addMemberCall(m, randomSuffix)
    \/ \E o \in ops : addMemberResolve(o)
    \/ \E i \in 1..Len(rendered.members) : deleteMemberCall(rendered.members[i].id)
    \/ \E o \in ops : deleteMemberResolve(o)
    \/ \E s \in SettingsInputs : updateSettingsCall(s)
    \/ \E o \in ops : updateSettingsResolve(o)
    \/ recomputeEffect
    \/ render

SpecAdmin == InitSession /\ [][NextAdmin]_vars

\* The community messages and their realtime channel, over an initial load whose
\* selects all succeed
Contents == {"salut"}

InitMsg ==
    \E Msg \in {<<>>, <<SeedMessage>>} :
        InitWith(Remote(<<SeedMember>>, <<>>, <<>>, Msg, <<>>))

NextMsg ==
    \/ Load({})
    \/ Round
    \/ \E c \in Credentials : loginCall(c[1], c[2])
    \/ \E o \in ops : loginResolve(o)
    \/ \E content \in Contents : addMessageCall(content)
    \/ addMessageNoUser
    \/ \E i \in 1..Len(rendered.messages) : deleteMessageCall(rendered.messages[i].id)
    \/ \E o \in ops : messageCallResolve(o)
    \/ logout
    \/ channelJoined
    \/ onInsert
    \/ onDelete
    \/ recomputeEffect
    \/ render

SpecMsg == InitMsg /\ [][NextMsg]_vars

\* The messages feed: the initial load and the realtime channel over a messages
\* collection that other writers fill too.  The member_info_json column is text:
\* a writer other than addMessage may leave a text in it that is not JSON, the
\* empty text among them, and a store that keeps the column as JSON answers with
\* the decoded object.
NoInfo == [sector |-> "", level |-> ""]
MalformedJson == [isString |-> TRUE, empty |-> FALSE, wellFormed |-> FALSE, value |-> NoInfo]
EmptyText == [isString |-> TRUE, empty |-> TRUE, wellFormed |-> FALSE, value |-> NoInfo]
DecodedInfo ==
    [isString |-> FALSE, empty |-> FALSE, wellFormed |-> FALSE,
     value |-> [sector |-> "ELEC", level |-> "L3"]]
SeedMalformed ==
    [id |-> SeedId(10), user_id |-> "pair@asso.com", user_role |-> "MEMBRE", content |-> "coucou",
     member_info_json |-> Some(MalformedJson), created_at |-> 1]
SeedEmptyText ==
    [id |-> SeedId(11), user_id |-> "pair@asso.com", user_role |-> "MEMBRE", content |-> "coucou",
     member_info_json |-> Some(EmptyText), created_at |-> 0]
SeedDecoded ==
    [id |-> SeedId(12), user_id |-> "pair@asso.com", user_role |-> "MEMBRE", content |-> "bonsoir",
     member_info_json |-> Some(DecodedInfo), created_at |-> 1]
PeerRows ==
    { [user_id |-> "pair@asso.com", user_role |-> "MEMBRE", content |-> "bonjour",
       member_info_json |-> Some(JSONstringify([sector |-> "INFO", level |-> "L2"]))],
      [user_id |-> "pair@asso.com", user_role |-> "MEMBRE", content |-> "coucou",
       member_info_json |-> Some(MalformedJson)],
      [user_id |-> "pair@asso.com", user_role |-> "MEMBRE", content |-> "coucou",
       member_info_json |-> Some(EmptyText)] }

\* Another writer inserts a row into messages: the store assigns its id and the
\* channel, once joined, carries the INSERT event with the row as payload.new
peerInsert(row) ==
    /\ nextId <= MaxPeerRows
    /\ LET req == Req("messages", "insert", row, Null, FALSE)
       IN /\ db' = DbAfter(req)
          /\ channel' = [channel EXCEPT !.events = @ \o EventsOf(req),
                                        !.missed = @ \/ ~channel.joined]
    /\ nextId' = nextId + 1
    /\ UNCHANGED <<cache, isLoading, effectPending, rendered, depsSet, ops, fetch, nCalls,
                   clock, returned>>

\* Another writer deletes a row of messages: DELETE event with the row as payload.old
peerDelete(id) ==
    /\ LET req == Req("messages", "delete", NoRow, id, FALSE)
       IN /\ db' = DbAfter(req)
          /\ channel' = [channel EXCEPT !.events = @ \o EventsOf(req),
                                        !.missed = @ \/ ~channel.joined]
    /\ UNCHANGED <<cache, isLoading, effectPending, rendered, depsSet, nextId, ops, fetch,
                   nCalls, clock, returned>>

InitFeed ==
    \E Msg \in {<<SeedMessage>>, <<SeedMalformed>>, <<SeedEmptyText>>, <<SeedDecoded>>} :
        InitWith(Remote(<<SeedMember>>, <<SeedExpense>>, <<SeedBudget>>, Msg,
                        <<SeedSettingsNoLogo>>))

NextFeed ==
    \/ Load({"messages"})
    \/ channelJoined
    \/ \E row \in PeerRows : peerInsert(row)
    \/ \E i \in 1..Len(db["messages"]) : peerDelete(db["messages"][i].id)
    \/ onInsert
    \/ onDelete
    \/ recomputeEffect
    \/ render

SpecFeed == InitFeed /\ [][NextFeed]_vars

\* The recompute effect over drawn transaction and budget sets: the state of the
\* render that has just set transactions (the effect is scheduled) while budgets
\* still show what an earlier transaction set gave them.
TxRows == {SeedExpense, SeedPending, SeedIncome, SeedMateriel}
TxRowSets ==
    {<<>>} \cup {<<r>> : r \in TxRows}
           \cup {p \in {<<r, q>> : r \in TxRows, q \in TxRows} : p[1].id # p[2].id}
StaleSpent == {0, 2}
BudgetSets ==
    {<<>>} \cup {<<[id |-> SeedId(8), category |-> c, allocatedAmount |-> 5,
                    spentAmount |-> sp, year |-> CurrentYear]>> :
                    c \in Range(ExpenseCategory), sp \in StaleSpent}
           \cup {<<[id |-> SeedId(8), category |-> ExpenseCategory[1], allocatedAmount |-> 5,
                    spentAmount |-> sp, year |-> CurrentYear],
                   [id |-> SeedId(9), category |-> ExpenseCategory[2], allocatedAmount |-> 0,
                    spentAmount |-> sq, year |-> CurrentYear]>> :
                    sp \in StaleSpent, sq \in StaleSpent}

InitRecompute ==
    \E T \in TxRowSets, B \in BudgetSets :
        /\ user = Null
        /\ transactions = Map(T, mapTransaction)
        /\ members = <<>>
        /\ budgets = B
        /\ messages = <<>>
        /\ settings = DefaultSettings
        /\ isLoading = FALSE
        /\ rendered = snapshot
        /\ depsSet = FALSE
        /\ effectPending = TRUE
        /\ db = Remote(<<>>, T,
                       Map(B, LAMBDA b : [id |-> b.id, category |-> b.category,
                                          allocated_amount |-> b.allocatedAmount, year |-> b.year]),
                       <<>>, <<>>)
        /\ nextId = 1
        /\ ops = {}
        /\ fetch = FetchDone
        /\ channel = [joined |-> FALSE, events |-> <<>>, missed |-> FALSE]
        /\ nCalls = 0
        /\ clock = MountTime
        /\ returned = Null

NextRecompute ==
    \/ recomputeEffect
    \/ render
    \/ Round
    \/ \E id \in CachedTxIds : approveTransactionCall(id)
    \/ \E o \in ops : approveTransactionResolve(o)

SpecRecompute == InitRecompute /\ [][NextRecompute]_vars

\* The effect is a passive effect of a committed render: React runs it
SpecRecomputeLive == SpecRecompute /\ WF_vars(recomputeEffect) /\ WF_vars(render)

\* The review of transactions when the store answers every request: the load's
\* selects all succeed and each approve / reject / delete request is executed
NextReview ==
    \/ Load({})
    \/ \E o \in ops : remoteOk(o)
    \/ \E id \in CachedTxIds : approveTransactionCall(id)
    \/ \E o \in ops : approveTransactionResolve(o)
    \/ \E id \in CachedTxIds : rejectTransactionCall(id)
    \/ \E o \in ops : rejectTransactionResolve(o)
    \/ \E id \in CachedTxIds : deleteTransactionCall(id)
    \/ \E o \in ops : deleteTransactionResolve(o)
    \/ recomputeEffect
    \/ render

SpecReview == InitTx /\ [][NextReview]_vars

\* The whole store: every entry point over every remote content above.  The
\* specifications above are its restrictions to one part of the store each.
Init == \E M \in {<<>>, <<SeedMember>>}, T \in {<<>>, <<SeedExpense, SeedPending>>},
           B \in {<<>>, <<SeedBudget>>}, Msg \in {<<>>, <<SeedMessage>>},
           S \in {<<>>, <<SeedSettings>>} : InitWith(Remote(M, T, B, Msg, S))
Next == NextTx \/ NextBudget \/ NextSession \/ NextAdmin \/ NextMsg \/ NextFeed \/ NextRecompute
        \/ NextReview
Spec == Init /\ [][Next]_vars

-----------------------------------------------------------------------------
(* Vocabulary of the properties *)
Finishes(o) == o \in ops /\ o.pc = "responded" /\ o \notin ops'
Executes(o) == o \in ops /\ o.pc = "sent" /\ [o EXCEPT !.pc = "responded", !.res = AnswerTo(o.req)] \in ops'
HasPlaceholderPrefix(id) == Len(id) >= 2 /\ id[1] = "b" /\ id[2] = "-"
IdsOf(rows) == {rows[i].id : i \in 1..Len(rows)}
SeedIds == {SeedId(k) : k \in 1..5}

RECURSIVE ApprovedExpenseTotal(_, _)
ApprovedExpenseTotal(category, k) ==
    IF k = 0 THEN 0
    ELSE ApprovedExpenseTotal(category, k - 1)
         + (IF transactions[k].type = "EXPENSE" /\ transactions[k].status = "APPROVED"
               /\ transactions[k].category = category
            THEN transactions[k].amount ELSE 0)

-----------------------------------------------------------------------------
\* C1: in every settled state (no recompute effect pending, no render due) every
\* cached budget's spentAmount is the sum of the amounts of the cached APPROVED
\* EXPENSE transactions of its category.
C1_SpentAmountIsApprovedExpenseSum ==
    (~effectPending /\ ~RenderDue) =>
        \A i \in 1..Len(budgets) :
            budgets[i].spentAmount = ApprovedExpenseTotal(budgets[i].category, Len(transactions))

\* C2: the status of a cached transaction changes only from PENDING, to APPROVED
\* or to REJECTED.
C2_StatusLeavesOnlyPending ==
    [][\A i \in 1..Len(transactions), j \in 1..Len(transactions') :
          (transactions[i].id = transactions'[j].id
           /\ transactions[i].status # transactions'[j].status)
          => (transactions[i].status = "PENDING"
              /\ transactions'[j].status \in {"APPROVED", "REJECTED"})]_vars

\* C3: a call of an entry point other than updateBudget on a placeholder id whose
\* remote call returned an error completes without changing the cache snapshot.
C3_ErrorLeavesSnapshot ==
    [][\A o \in ops :
          (Finishes(o) /\ o.res.error
           /\ ~(o.kind = "updateBudget" /\ HasPlaceholderPrefix(o.arg.id)))
          => snapshot' = snapshot]_vars

\* C4: updateBudget on an id with the prefix b- makes the store insert one budget
\* row and update none, and on success replaces the cache entries of that id by the
\* returned budget, whose id has no such prefix; on any other id it makes the store
\* update the rows of that id and insert none, and the cache entries of that id
\* keep their id and get the given allocatedAmount; what the call applied stays
\* in the cache: a run of the recompute effect changes no id and no allocatedAmount.
C4_Dispatch(o) ==
    IF HasPlaceholderPrefix(o.arg.id)
    THEN /\ o.req.verb = "insert"
         /\ Executes(o) =>
              /\ Len(db'["budgets"]) = Len(db["budgets"]) + 1
              /\ SubSeq(db'["budgets"], 1, Len(db["budgets"])) = db["budgets"]
    ELSE /\ o.req.verb = "update"
         /\ Executes(o) =>
              /\ Len(db'["budgets"]) = Len(db["budgets"])
              /\ \A i \in 1..Len(db["budgets"]) :
                    /\ db'["budgets"][i].id = db["budgets"][i].id
                    /\ db'["budgets"][i].allocated_amount =
                          IF db["budgets"][i].id = o.arg.id THEN o.arg.amount
                          ELSE db["budgets"][i].allocated_amount

C4_Applied(o) ==
    /\ Len(budgets') = Len(budgets)
    /\ \A i \in 1..Len(budgets) :
          IF budgets[i].id # o.arg.id THEN budgets'[i] = budgets[i]
          ELSE IF ~HasPlaceholderPrefix(o.arg.id)
               THEN /\ budgets'[i].id = o.arg.id
                    /\ budgets'[i].allocatedAmount = o.arg.amount
                    /\ budgets'[i].category = budgets[i].category
               ELSE o.res.hasData =>
                    /\ budgets'[i].id = o.res.data[1].id
                    /\ budgets'[i].id \in IdsOf(db["budgets"])
                    /\ ~HasPlaceholderPrefix(budgets'[i].id)
                    /\ budgets'[i].allocatedAmount = o.arg.amount
                    /\ budgets'[i].category = o.arg.category

C4_Kept ==
    /\ Len(budgets') = Len(budgets)
    /\ \A i \in 1..Len(budgets) :
          /\ budgets'[i].id = budgets[i].id
          /\ budgets'[i].allocatedAmount = budgets[i].allocatedAmount

C4_UpdateBudgetInsertsOrUpdates ==
    [][/\ \A o \in ops :
             o.kind = "updateBudget" =>
                 /\ C4_Dispatch(o)
                 /\ Finishes(o) => C4_Applied(o)
       /\ (effectPending /\ ~effectPending') => C4_Kept]_vars

\* C7: the entry by which a transaction of addTransaction first shows in the cache
\* has status APPROVED when the session read by the call had role TRESORIER, and
\* PENDING for any other role and for no session.
C7_StatusAtCreation ==
    [][\A o \in ops :
          (o.kind = "addTransaction" /\ o.pc = "responded" /\ o.res.hasData
           /\ o.res.data[1].id \notin IdsOf(transactions))
          => \A j \in 1..Len(transactions') :
                transactions'[j].id = o.res.data[1].id
                => transactions'[j].status =
                      IF o.by # Null /\ o.by[1].role = "TRESORIER" THEN "APPROVED" ELSE "PENDING"]_vars

\* C7 witness: a transaction added under a TRESORIER session is in the cache and
\* shown, APPROVED
C7_Witness ==
    /\ user # Null
    /\ user[1].role = "TRESORIER"
    /\ nCalls = 2
    /\ ~RenderDue
    /\ \E i \in 1..Len(transactions) :
          transactions[i].id \notin SeedIds /\ transactions[i].status = "APPROVED"

\* C8: every cached transaction, queued for the next render or shown by the last
\* one, has a non-empty receipt number exactly when its type is INCOME.
C8_ReceiptIffIncome ==
    \A T \in {transactions, rendered.transactions} :
        \A i \in 1..Len(T) : (Len(T[i].receiptNumber) > 0) <=> (T[i].type = "INCOME")

\* C8 witness: an INCOME and an EXPENSE added by addTransaction are both in the
\* cache, applied by two continuations that ran before one render
C8_Witness ==
    /\ \E i, j \in 1..Len(transactions) :
          /\ transactions[i].id \notin SeedIds /\ transactions[i].type = "INCOME"
          /\ transactions[j].id \notin SeedIds /\ transactions[j].type = "EXPENSE"
    /\ IdsOf(rendered.transactions) \subseteq SeedIds

\* C10: the cache changes for a call only in the step that completes it, after the
\* store has answered, and what that step applies is confirmed by the store: the
\* answer was no error, and an inserted entry is the row the store returned.
C10_AppliedAfterRoundTripAndConfirmed ==
    [][/\ (<<transactions, members, budgets, settings>>' # <<transactions, members, budgets, settings>>)
          => \/ \E o \in ops : Finishes(o)
             \/ fetch.pc # fetch'.pc
             \/ effectPending /\ ~effectPending'
       /\ \A o \in ops :
             (Finishes(o) /\ snapshot' # snapshot)
             => /\ ~o.res.error
                /\ o.req.verb = "insert" => o.res.hasData]_vars

\* C5: once the initial load has completed, every change of the remote messages
\* has had its event delivered and no call is in flight, the cache and the remote
\* collection hold the same message ids.
C5_MessagesMatchRemote ==
    (fetch.pc = "done" /\ channel.events = <<>> /\ ~channel.missed /\ ops = {})
    => IdsOf(messages) = IdsOf(db["messages"])

CountOf(msgs, id) == Cardinality({i \in 1..Len(msgs) : msgs[i].id = id})
Delivers(type) ==
    /\ channel.events # <<>>
    /\ Head(channel.events).type = type
    /\ channel'.events = Tail(channel.events)

\* C6 as stated: when the INSERT event of a message posted through addMessage has
\* arrived, the cache holds two entries for that message.
C6_EventDuplicatesPostedMessage ==
    [][Delivers("INSERT") => CountOf(messages', Head(channel.events).row.id) = 2]_vars

\* C6 as amended: no step of an addMessage call changes the cached messages, and the
\* arrival of the INSERT event of the posted message adds exactly one entry for it,
\* at the end.
C6_OnlyTheEventAppends ==
    [][/\ \A o \in ops' :
             (o.kind = "addMessage" /\ o \notin ops) => messages' = messages
       /\ \A o \in ops :
             (o.kind = "addMessage" /\ o \notin ops') => messages' = messages
       /\ Delivers("INSERT") =>
             /\ Len(messages') = Len(messages) + 1
             /\ SubSeq(messages', 1, Len(messages)) = messages
             /\ messages'[Len(messages')].id = Head(channel.events).row.id]_vars

\* C6 witness: a message posted through addMessage has had its event delivered, the
\* call has completed, and the cache holds the message once.
C6_Witness ==
    /\ ops = {}
    /\ channel.events = <<>>
    /\ \E id \in IdsOf(db["messages"]) \ SeedIds : CountOf(messages, id) = 1

NoCredentialMatches(email, pass) ==
    ~\E i \in 1..Len(UsersTable) : UsersTable[i].email = email /\ UsersTable[i].password = pass

\* C9: a login for which no credential record matches both email and secret, or
\* whose lookup returns an error or throws, returns false and leaves the session
\* and the rest of the cache unchanged.
C9_FailedLoginChangesNothing ==
    [][\A o \in ops :
          (Finishes(o) /\ o.kind = "login"
           /\ (NoCredentialMatches(o.arg.email, o.arg.pass) \/ o.res.error \/ o.res.thrown))
          => (returned' = Some(FALSE) /\ snapshot' = snapshot)]_vars

\* C9 witness: after a successful login, a login with a wrong secret has returned
\* false and the session is still there
C9_Witness ==
    /\ returned = Some(FALSE)
    /\ user # Null
    /\ ops = {}
    /\ fetch.pc = "done"

-----------------------------------------------------------------------------
\* C11: the budget recomputation is idempotent: for the transaction set T and the
\* budget set B of every state (those queued for the next render and those the
\* last render showed), recompute(T, recompute(T, B)) = recompute(T, B), the
\* comparison of the effect finds no difference on a second run, and a run of the
\* effect that reads budgets which already are recompute(T, B) issues no update.
C11_RecomputeIdempotent ==
    /\ [](\A s \in {snapshot, rendered} :
             LET once == recompute(s.transactions, s.budgets)
                 twice == recompute(s.transactions, once)
             IN twice = once /\ ~budgetsDiffer(twice, once))
    /\ [][(effectPending /\ ~effectPending'
            /\ rendered.budgets = recompute(rendered.transactions, rendered.budgets))
           => budgets' = budgets]_vars

\* C11 witness: the effect has run, a later approveTransaction on an unchanged
\* transaction set has scheduled it again, and the budgets (with a spent amount
\* above 0) already are what the recomputation gives.
C11_Witness ==
    /\ effectPending
    /\ ~RenderDue
    /\ nCalls >= 1
    /\ ops = {}
    /\ Map(db["transactions"], mapTransaction) = transactions
    /\ \E i \in 1..Len(budgets) : budgets[i].spentAmount > 0
    /\ budgets = recompute(transactions, budgets)

\* C12: while the effect is scheduled the only budget update is the effect's own,
\* it is the recomputation of the budgets the effect read, it leaves the effect
\* unscheduled and does not trigger it again (the effect is scheduled only by a
\* render that follows a setTransactions), a run that finds the recomputed set
\* equal to the one it read changes nothing, and every scheduled effect leads to a
\* settled cache: effect not scheduled, no render due, budgets equal to their
\* recomputation.
C12_OneUpdateThenSettled ==
    /\ [][/\ (effectPending /\ budgets' # budgets)
             => (/\ ~effectPending'
                 /\ budgets' = recompute(rendered.transactions, rendered.budgets)
                 /\ transactions' = transactions
                 /\ depsSet' = depsSet)
          /\ (effectPending /\ ~budgetsDiffer(recompute(rendered.transactions, rendered.budgets),
                                               rendered.budgets))
             => budgets' = budgets
          /\ (~effectPending /\ effectPending') => depsSet]_vars
    /\ (effectPending ~> (/\ ~effectPending
                          /\ ~RenderDue
                          /\ budgets = recompute(transactions, budgets)))

\* C12 witness: after an approveTransaction changed the transaction set, the effect
\* has updated the budgets and the cache is settled.
C12_Witness ==
    /\ ~effectPending
    /\ ~RenderDue
    /\ ops = {}
    /\ nCalls >= 1
    /\ \E i \in 1..Len(transactions) :
          transactions[i].id = SeedPending.id /\ transactions[i].status = "APPROVED"
    /\ \E i \in 1..Len(budgets) : budgets[i].category = "Transport" /\ budgets[i].spentAmount = 3

-----------------------------------------------------------------------------
Malformed(row) ==
    /\ row.member_info_json # Null
    /\ row.member_info_json[1].isString
    /\ ~row.member_info_json[1].wellFormed
LoadCompletes == fetch.pc = "awaiting" /\ fetch'.pc = "done"

\* C13: a remote message row whose member_info_json is malformed is mapped to a
\* message without memberInfo and nothing is thrown: the initial load still applies
\* every row of the messages batch, and the members, transactions, settings and
\* budgets it read, and an INSERT event carrying such a row still appends its message.
C13_MalformedJsonFailsClosed ==
    [][/\ (LoadCompletes /\ ~FetchRejected) =>
             LET res == fetch.res
             IN /\ res["members"].hasData => members' = Map(res["members"].data, mapMember)
                /\ res["transactions"].hasData
                      => transactions' = Map(res["transactions"].data, mapTransaction)
                /\ res["messages"].hasData =>
                      /\ Len(messages') = Len(res["messages"].data)
                      /\ \A i \in 1..Len(messages') :
                            /\ messages'[i].id = res["messages"].data[i].id
                            /\ Malformed(res["messages"].data[i]) => messages'[i].memberInfo = Null
                /\ (res["settings"].hasData /\ Len(res["settings"].data) > 0)
                      => settings'.associationName = res["settings"].data[1].association_name
                /\ (res["budgets"].hasData /\ Len(res["budgets"].data) > 0)
                      => IdsOf(budgets') = IdsOf(res["budgets"].data)
       /\ Delivers("INSERT") =>
             /\ Len(messages') = Len(messages) + 1
             /\ messages'[Len(messages')].id = Head(channel.events).row.id
             /\ Malformed(Head(channel.events).row) => messages'[Len(messages')].memberInfo = Null]_vars

-----------------------------------------------------------------------------
ApprovedAmounts(T, type) ==
    {<<i, T[i].amount>> : i \in {j \in 1..Len(T) : T[j].type = type /\ T[j].status = "APPROVED"}}
RECURSIVE SumOfPairs(_)
SumOfPairs(S) == IF S = {} THEN 0 ELSE LET p == CHOOSE q \in S : TRUE IN p[2] + SumOfPairs(S \ {p})
CachedEntry(id) == transactions[CHOOSE i \in 1..Len(transactions) : transactions[i].id = id]

ShownStatsAreSums(st, T) ==
    /\ st.totalIncome = SumOfPairs(ApprovedAmounts(T, "INCOME"))
    /\ st.totalExpense = SumOfPairs(ApprovedAmounts(T, "EXPENSE"))
    /\ st.balance = st.totalIncome - st.totalExpense
    /\ st.pendingCount = Cardinality({i \in 1..Len(T) : T[i].status = "PENDING"})

\* C14: in every state totalIncome is the sum of the amounts of the APPROVED INCOME
\* transactions, totalExpense that of the APPROVED EXPENSE ones, balance their
\* difference and pendingCount the number of PENDING transactions (the stats the
\* provider shows, of the transactions it shows, and the stats a render of the
\* queued transactions computes); and a successful approveTransaction on a PENDING
\* EXPENSE of amount a and category c lowers the balance that the next render
\* computes by a and its pendingCount by 1, and the recomputation that follows
\* raises the spentAmount of the budgets of c by a.
C14_StatsAndApproveDeltas ==
    /\ [](/\ ShownStatsAreSums(stats, rendered.transactions)
           /\ ShownStatsAreSums(statsOf(transactions), transactions))
    /\ [][\A o \in ops :
             (Finishes(o) /\ o.kind = "approveTransaction" /\ ~o.res.error
              /\ o.arg.id \in IdsOf(transactions)
              /\ CachedEntry(o.arg.id).status = "PENDING"
              /\ CachedEntry(o.arg.id).type = "EXPENSE")
             => LET a == CachedEntry(o.arg.id).amount
                    c == CachedEntry(o.arg.id).category
                    settled == recompute(transactions', budgets)
                IN /\ statsOf(transactions').balance = statsOf(transactions).balance - a
                   /\ statsOf(transactions').pendingCount
                         = statsOf(transactions).pendingCount - 1
                   /\ \A j \in 1..Len(budgets) :
                         budgets[j].category = c
                         => settled[j].spentAmount = budgets[j].spentAmount + a]_vars

\* C15: approveTransaction applied to a transaction that is already APPROVED leaves
\* its status APPROVED, the transaction set and the stats (those shown and those
\* the next render computes) as they are, and the recomputation that follows
\* leaves every budget's spentAmount as it is.
C15_ApproveIdempotent ==
    [][\A o \in ops :
          (Finishes(o) /\ o.kind = "approveTransaction"
           /\ o.arg.id \in IdsOf(transactions)
           /\ CachedEntry(o.arg.id).status = "APPROVED")
          => /\ transactions' = transactions
             /\ stats' = stats
             /\ statsOf(transactions') = statsOf(transactions)
             /\ \A j \in 1..Len(budgets) :
                   recompute(transactions', budgets)[j].spentAmount = budgets[j].spentAmount]_vars

\* C16: each subscription INSERT event appends the message mapped from its row at
\* the end of the cached list and leaves the entries before it as they were, in
\* their order (no resequencing); each DELETE event removes exactly the entries
\* whose id is the deleted row's id and keeps the others in their order.
C16_EventsAppendAndRemoveInOrder ==
    [][/\ Delivers("INSERT") =>
             /\ Len(messages') = Len(messages) + 1
             /\ SubSeq(messages', 1, Len(messages)) = messages
             /\ messages'[Len(messages')].id = Head(channel.events).row.id
             /\ messages'[Len(messages')].content = Head(channel.events).row.content
       /\ Delivers("DELETE") =>
             messages' = SelectSeq(messages, LAMBDA m : m.id # Head(channel.events).row.id)]_vars

\* C17: a logout (the step that ends the session, and every step that neither
\* starts, answers nor completes a call, nor belongs to the load, the effect, the
\* render or the channel)
\* leaves the session absent, issues no remote call (the suspended calls, the call
\* count and the remote collections are as before) and leaves members,
\* transactions, budgets, messages and settings unchanged.
C17_LogoutClearsSessionOnly ==
    [][((user # Null /\ user' = Null)
        \/ (ops' = ops /\ fetch' = fetch /\ effectPending' = effectPending
            /\ channel' = channel /\ nCalls' = nCalls
            /\ rendered' = rendered /\ depsSet' = depsSet))
       => /\ user' = Null
          /\ ops' = ops /\ nCalls' = nCalls /\ db' = db /\ nextId' = nextId
          /\ <<members, transactions, budgets, messages, settings>>'
                = <<members, transactions, budgets, messages, settings>>]_vars

\* C17 witness: after a login succeeded and the load filled the cache, logout has
\* ended the session while an addMessage of that session is suspended on its round trip
C17_Witness ==
    /\ user = Null
    /\ returned = Some(TRUE)
    /\ \E o \in ops : o.pc = "sent" /\ o.kind = "addMessage" /\ o.by # Null
    /\ fetch.pc = "done"
    /\ members # <<>>

IsDigit(ch) == \E i \in 1..Len(Digit) : Digit[i] = ch
WellFormedUniqueId(uid, gender) ==
    /\ Len(uid) = 12
    /\ (gender = "M" => uid[1] = "A")
    /\ (gender = "F" => uid[1] = "B")
    /\ \A i \in 2..12 : IsDigit(uid[i])
    /\ uid[2] # "0"

\* C18: the uniqueId of every member created by addMember (in the request, in the
\* remote row and in the cache entry) has 12 characters, the first A for gender M
\* and B for gender F, the other 11 decimal digits of a number in
\* [10000000000, 99999999999].
C18_UniqueIdFormat ==
    /\ \A o \in ops : o.kind = "addMember" => WellFormedUniqueId(o.req.row.unique_id, o.arg.gender)
    /\ \A i \in 1..Len(db["members"]) :
          db["members"][i].id \notin SeedIds
          => WellFormedUniqueId(db["members"][i].unique_id, db["members"][i].gender)
    /\ \A i \in 1..Len(members) :
          members[i].id \notin SeedIds => WellFormedUniqueId(members[i].uniqueId, members[i].gender)

\* C18 witness: a member of gender M and a member of gender F created by addMember
\* are in the cache, one of them with the largest suffix
C18_Witness ==
    \E i, j \in 1..Len(members) :
        /\ members[i].id \notin SeedIds /\ members[i].gender = "M"
        /\ members[j].id \notin SeedIds /\ members[j].gender = "F"
        /\ SubSeq(members[j].uniqueId, 2, 12) = <<"9", "9", "9", "9", "9", "9", "9", "9", "9", "9", "9">>

InsertedBudgetsOf(category) ==
    {i \in 1..Len(db["budgets"]) :
        db["budgets"][i].category = category /\ db["budgets"][i].id \notin SeedIds}
CachedBudgetsOf(category) == {i \in 1..Len(budgets) : budgets[i].category = category}

\* C19: whatever the interleaving of the updateBudget calls, the remote budgets hold
\* at most one inserted record per placeholder budget (one per category), and when
\* no call is in flight the cache holds at most one budget per category, each
\* persisted one with the id and the allocatedAmount of a remote record.
C19_OneInsertPerPlaceholder ==
    /\ \A c \in Range(ExpenseCategory) : Cardinality(InsertedBudgetsOf(c)) <= 1
    /\ (ops = {} /\ fetch.pc = "done" /\ ~effectPending)
       => \A c \in Range(ExpenseCategory) :
             /\ Cardinality(CachedBudgetsOf(c)) <= 1
             /\ \A i \in CachedBudgetsOf(c) :
                   ~HasPlaceholderPrefix(budgets[i].id)
                   => \E j \in 1..Len(db["budgets"]) :
                         /\ db["budgets"][j].id = budgets[i].id
                         /\ db["budgets"][j].allocated_amount = budgets[i].allocatedAmount

\* C20: the step that completes an initial load whose five selects all returned
\* data leaves the cache with exactly one budget for each expense category.
C20_OneBudgetPerCategoryAfterLoad ==
    [][(LoadCompletes /\ \A t \in Tables : fetch.res[t].hasData)
       => \A c \in Range(ExpenseCategory) :
             Cardinality({i \in 1..Len(budgets') : budgets'[i].category = c}) = 1]_vars

\* C21: when every remote call has succeeded (the store executed every request)
\* and no call is in flight after the load, the cached transactions and the remote
\* transactions hold the same ids and, for each id, the same status, whatever the
\* order in which overlapping approve / reject / delete calls were executed and
\* resolved.
C21_TransactionsMatchRemote ==
    (ops = {} /\ fetch.pc = "done")
    => /\ IdsOf(transactions) = IdsOf(db["transactions"])
       /\ \A i \in 1..Len(transactions), j \in 1..Len(db["transactions"]) :
             transactions[i].id = db["transactions"][j].id
             => transactions[i].status = db["transactions"][j].status

====
